---- MODULE Spec2Model ----
(***************************************************************************)
(* A model of the AirBnB clone REST API (api/v1): the route handlers of    *)
(* api/v1/views/*.py over the storage engine of models/.                   *)
(*                                                                         *)
(* Modelling conventions                                                   *)
(*  - ids, timestamps and attribute values are opaque tokens, modelled as  *)
(*    naturals (a JSON/Python dict is a function from key strings to       *)
(*    naturals);                                                           *)
(*  - storage.__objects is the function `objects`, keyed by <<class, id>>  *)
(*    as the engine keys it by "ClassName.id";                             *)
(*  - a request body is [is_json, data]: is_json = FALSE is a body for     *)
(*    which request.get_json() yields None;                                *)
(*  - requests are handled one at a time (Spec, SpecSearch) or by          *)
(*    concurrent threads that share the storage and can be preempted       *)
(*    between two statements that touch it (SpecThreaded);                 *)
(*  - the models package (BaseModel, the storage engine) is not part of    *)
(*    the sources at hand; its operators are modelled from the             *)
(*    specification and are marked so where they are defined.              *)
(***************************************************************************)
EXTENDS Integers, Sequences, FiniteSets, TLC

VARIABLES
    objects,    \* storage: <<class, id>> -> [cls, attrs, amenity_ids]
    nextId,     \* the next fresh id (uuid4() never repeats); also the clock
    req,        \* the request handled last
    resp,       \* the response to it
    nreq,       \* the number of requests handled so far
    deleted,    \* history: the <<class, id>> of every DELETE answered 200
    closes,     \* the number of storage.close() calls so far
    threads,    \* the request each dispatcher thread is handling, and where
    last_set    \* history: <<state id, key>> -> the thread that set it last

vars == <<objects, nextId, req, resp, nreq, deleted, closes, threads, last_set>>

(***************************************************************************)
(* Bounds                                                                  *)
(***************************************************************************)
\* requests handled in one behaviour
MaxReq == 2
\* ids in one places_search filter (over its three lists together)
MaxFilterLen == 2
\* dispatcher threads handling requests at the same time
MaxThreads == 2

Classes == {"State", "City", "Amenity", "Place", "User", "Review"}

EmptyDict == [k \in {} |-> 0]

\* d with d[k] = v (setattr / dict item assignment)
SetKey(d, k, v) == [x \in (DOMAIN d) \cup {k} |-> IF x = k THEN v ELSE d[x]]

\* d without key k (dict.pop(k, None))
Pop(d, k) == [x \in (DOMAIN d) \ {k} |-> d[x]]

\* the ascending sequence of the elements of a finite set of naturals:
\* the order in which the model iterates over a collection of ids
RECURSIVE SortedSeq(_)
SortedSeq(S) ==
    IF S = {} THEN <<>>
    ELSE LET m == CHOOSE x \in S : \A y \in S : x <= y
         IN  <<m>> \o SortedSeq(S \ {m})

Range(s) == {s[i] : i \in 1..Len(s)}

(***************************************************************************)
(* Request bodies                                                          *)
(***************************************************************************)
NoJson == [is_json |-> FALSE, data |-> EmptyDict]
Json(d) == [is_json |-> TRUE, data |-> d]

\* Python truthiness of request.get_json(): None and {} are falsy
Truthy(body) == body.is_json /\ DOMAIN body.data # {}

(***************************************************************************)
(* Responses                                                               *)
(***************************************************************************)
\* jsonify(obj) / make_response(jsonify(obj), code): a JSON body.
\* out is the sequence of serialized entities of the body (one for an
\* object, any number for an array, none for {}).
JsonResponse(code, kind, out) ==
    [code |-> code, kind |-> kind, error |-> "", out |-> out]

\* app.errorhandler(404): not_found
not_found ==
    [code |-> 404, kind |-> "envelope", error |-> "Not found", out |-> <<>>]

\* abort(400, description=...): no handler is registered for 400, so the
\* framework's default HTML error page carries the description
Abort400(description) ==
    [code |-> 400, kind |-> "html", error |-> description, out |-> <<>>]

\* an exception escaping the handler: the framework's default 500 page
InternalServerError ==
    [code |-> 500, kind |-> "html", error |-> "Internal Server Error",
     out |-> <<>>]

NoRequest == [handler |-> "", cls |-> "", id |-> 0, id2 |-> 0, body |-> NoJson,
              is_json |-> FALSE, keys |-> {},
              states |-> <<>>, cities |-> <<>>, amenities |-> <<>>]
NoResponse == [code |-> 0, kind |-> "", error |-> "", out |-> <<>>]

Request(handler, cls, id, body) ==
    [handler |-> handler, cls |-> cls, id |-> id, id2 |-> 0, body |-> body,
     is_json |-> body.is_json, keys |-> DOMAIN body.data,
     states |-> <<>>, cities |-> <<>>, amenities |-> <<>>]

\* a request on /places/<id>/amenities/<id2>
LinkRequest(handler, id, id2) ==
    [handler |-> handler, cls |-> "Place", id |-> id, id2 |-> id2,
     body |-> NoJson, is_json |-> FALSE, keys |-> {},
     states |-> <<>>, cities |-> <<>>, amenities |-> <<>>]

(***************************************************************************)
(* models: BaseModel and the storage engine                                *)
(***************************************************************************)
\* storage.get(cls, id) is not None
Exists(objs, cls, id) == <<cls, id>> \in DOMAIN objs

\* storage.get(cls, id), for an existing entity
Get(objs, cls, id) == objs[<<cls, id>>]

\* storage.all(cls): the ids of the live entities of a class
All(objs, cls) == {k[2] : k \in {kk \in DOMAIN objs : kk[1] = cls}}

\* a faulty variant of BaseModel: an 'id' keyword is kept
BaseModel_keeps_id(cls, data, id, now) ==
    [cls |-> cls,
     attrs |-> ("created_at" :> now) @@ ("updated_at" :> now) @@ data
               @@ ("id" :> id),
     amenity_ids |-> <<>>]

\* cls(**data): every keyword becomes an attribute; the id is generated at
\* creation and both timestamps are set at creation
BaseModel(cls, data, id, now) ==
    [cls |-> cls,
     attrs |-> ("id" :> id) @@ ("created_at" :> now) @@ ("updated_at" :> now)
               @@ data,
     amenity_ids |-> <<>>]

\* instance.save(): updated_at := now, storage.new(instance), storage.save()
Save(objs, o, now) ==
    LET saved == [o EXCEPT !.attrs = SetKey(o.attrs, "updated_at", now)]
    IN  [k \in (DOMAIN objs) \cup {<<o.cls, o.attrs["id"]>>} |->
            IF k = <<o.cls, o.attrs["id"]>> THEN saved ELSE objs[k]]

\* storage.delete(obj); storage.save(): no cascade to dependents
Delete(objs, cls, id) ==
    [k \in (DOMAIN objs) \ {<<cls, id>>} |-> objs[k]]

\* obj.to_dict(): all attributes plus the discriminator of the entity type;
\* a Place's amenity association is among its attributes
to_dict(o) ==
    [cls |-> o.cls,
     attrs |-> o.attrs,
     lists |-> IF o.cls = "Place" THEN ("amenities" :> o.amenity_ids)
               ELSE EmptyDict]

\* the keys of a serialized entity
Keys(d) == (DOMAIN d.attrs) \cup (DOMAIN d.lists) \cup {"__class__"}

\* [obj.to_dict() for obj in ...] over a set of ids of one class
ToDicts(objs, cls, ids) ==
    LET s == SortedSeq(ids)
    IN  [i \in 1..Len(s) |-> to_dict(Get(objs, cls, s[i]))]

\* state.cities, city.places, place.reviews: the back-references
Children(objs, cls, fk, id) ==
    {i \in All(objs, cls) :
        fk \in DOMAIN Get(objs, cls, i).attrs /\ Get(objs, cls, i).attrs[fk] = id}

\* place.amenities: the Amenity entities associated with the place
Amenities(objs, p) ==
    {a \in All(objs, "Amenity") : a \in Range(p.amenity_ids)}

(***************************************************************************)
(* The environment: what is in storage when the service starts, and the    *)
(* requests clients send                                                   *)
(***************************************************************************)
Entity(cls, attrs, amenity_ids) ==
    [cls |-> cls, attrs |-> attrs, amenity_ids |-> amenity_ids]

Base(id) == ("id" :> id) @@ ("created_at" :> id) @@ ("updated_at" :> id)

\* the persisted entities storage.reload() finds: one State, its City, a
\* User, a Place of that city and user with one Amenity, and a Review
SeedStore ==
    (<<"State", 1>> :> Entity("State", Base(1) @@ ("name" :> 11), <<>>))
    @@ (<<"City", 2>> :>
            Entity("City", Base(2) @@ ("name" :> 11) @@ ("state_id" :> 1), <<>>))
    @@ (<<"User", 3>> :>
            Entity("User", Base(3) @@ ("email" :> 11) @@ ("password" :> 11), <<>>))
    @@ (<<"Place", 4>> :>
            Entity("Place", Base(4) @@ ("name" :> 11) @@ ("city_id" :> 2)
                            @@ ("user_id" :> 3), <<5>>))
    @@ (<<"Amenity", 5>> :> Entity("Amenity", Base(5) @@ ("name" :> 11), <<>>))
    @@ (<<"Review", 6>> :>
            Entity("Review", Base(6) @@ ("text" :> 11) @@ ("place_id" :> 4)
                             @@ ("user_id" :> 3), <<>>))

\* the ids a client puts in a path: every id issued so far, and 0, an id
\* that was never issued
ReqIds == 0..(nextId - 1)

\* keys a client may send although the API treats them as immutable
Immutables ==
    ("id" :> 1) @@ ("created_at" :> 0) @@ ("updated_at" :> 0)

\* bodies sent to the State, City and Amenity routes
NameBodies ==
    {NoJson, Json(EmptyDict), Json("name" :> 12), Json("state_id" :> 5),
     Json(("name" :> 12) @@ ("state_id" :> 5) @@ Immutables)}

\* bodies sent to the User routes
UserBodies ==
    {NoJson, Json(EmptyDict), Json("email" :> 12), Json("password" :> 12),
     Json(("email" :> 12) @@ ("password" :> 12)),
     Json(("email" :> 12) @@ ("password" :> 12) @@ Immutables)}

\* bodies sent to the Place routes (user 3 is the seeded User, 5 is no User)
PlaceBodies ==
    {NoJson, Json(EmptyDict), Json("name" :> 12), Json("user_id" :> 3),
     Json(("user_id" :> 5) @@ ("name" :> 12)),
     Json(("user_id" :> 3) @@ ("name" :> 12)),
     Json(("user_id" :> 3) @@ ("name" :> 12) @@ ("city_id" :> 5) @@ Immutables)}

\* bodies sent to the Review routes
ReviewBodies ==
    {NoJson, Json(EmptyDict), Json("text" :> 12), Json("user_id" :> 3),
     Json(("user_id" :> 5) @@ ("text" :> 12)),
     Json(("user_id" :> 3) @@ ("text" :> 12)),
     Json(("user_id" :> 3) @@ ("text" :> 12) @@ ("place_id" :> 5) @@ Immutables)}

(***************************************************************************)
(* One request: the handler's response and its effect on storage           *)
(***************************************************************************)
\* the dispatcher threads (app.run(threaded=True))
Threads == 1..MaxThreads

\* a thread that has not been given a request
Idle == [pc |-> "idle", handler |-> "", id |-> 0, body |-> NoJson,
         todo |-> <<>>, code |-> 0]

DeleteHandlers ==
    {"delete_state", "delete_city", "delete_amenity", "delete_user",
     "delete_place", "delete_review"}

\* the exception the framework hands to the teardown functions: the one
\* that escaped the view. abort() raises an HTTPException, which the
\* framework turns into the response, so the teardown functions get None.
Unhandled(r) == r.code = 500

\* a faulty variant of close_db: the storage is not closed after an error
close_db_unless_error(error) == IF error THEN 0 ELSE 1

\* @app.teardown_appcontext close_db(error): storage.close(), whatever the
\* error; the number of storage.close() calls it makes
close_db(error) == 1

\* one request handled from dispatch to the teardown of its context
Handle(q, r, objs, nid) ==
    /\ nreq < MaxReq
    /\ req' = q
    /\ resp' = r
    /\ objects' = objs
    /\ nextId' = nid
    /\ nreq' = nreq + 1
    /\ deleted' = IF q.handler \in DeleteHandlers /\ r.code = 200
                  THEN deleted \cup {<<q.cls, q.id>>}
                  ELSE deleted
    /\ closes' = closes + close_db(Unhandled(r))
    /\ UNCHANGED <<threads, last_set>>

\* for key, value in data.items(): if key not in ignore: setattr(obj, key, value)
SetAttrs(o, data, ignore) ==
    LET set == (DOMAIN data) \ ignore
    IN  [o EXCEPT !.attrs = [k \in (DOMAIN o.attrs) \cup set |->
                                IF k \in set THEN data[k] ELSE o.attrs[k]]]

\* storage after obj was mutated in place and storage.save() was called
Put(objs, cls, id, o) == [objs EXCEPT ![<<cls, id>>] = o]

\* instance = cls(**data); instance.save(); 201 with instance.to_dict()
Create(q, cls, data) ==
    LET instance == BaseModel(cls, data, nextId, nextId)
        objs == Save(objects, instance, nextId)
    IN  Handle(q, JsonResponse(201, "object",
                               <<to_dict(objs[<<cls, instance.attrs["id"]>>])>>),
               objs, nextId + 1)

(***************************************************************************)
(* api/v1/views/states.py                                                  *)
(***************************************************************************)
get_states ==
    Handle(Request("get_states", "State", 0, NoJson),
           JsonResponse(200, "array", ToDicts(objects, "State", All(objects, "State"))),
           objects, nextId)

get_state(state_id) ==
    LET q == Request("get_state", "State", state_id, NoJson)
    IN  IF ~Exists(objects, "State", state_id)
        THEN Handle(q, not_found, objects, nextId)
        ELSE Handle(q, JsonResponse(200, "object",
                                    <<to_dict(Get(objects, "State", state_id))>>),
                    objects, nextId)

\* a faulty variant of delete_state: 200 without storage.delete(state)
delete_state_keeps(state_id) ==
    LET q == Request("delete_state", "State", state_id, NoJson)
    IN  IF ~Exists(objects, "State", state_id)
        THEN Handle(q, not_found, objects, nextId)
        ELSE Handle(q, JsonResponse(200, "object", <<>>), objects, nextId)

delete_state(state_id) ==
    LET q == Request("delete_state", "State", state_id, NoJson)
    IN  IF ~Exists(objects, "State", state_id)
        THEN Handle(q, not_found, objects, nextId)
        ELSE Handle(q, JsonResponse(200, "object", <<>>),
                    Delete(objects, "State", state_id), nextId)

post_state(body) ==
    LET q == Request("post_state", "State", 0, body)
    IN  IF ~Truthy(body)
        THEN Handle(q, Abort400("Not a JSON"), objects, nextId)
        ELSE IF "name" \notin DOMAIN body.data
        THEN Handle(q, Abort400("Missing name"), objects, nextId)
        ELSE Create(q, "State", body.data)

StateIgnore == {"id", "created_at", "updated_at"}

put_state(state_id, body) ==
    LET q == Request("put_state", "State", state_id, body)
    IN  IF ~Exists(objects, "State", state_id)
        THEN Handle(q, not_found, objects, nextId)
        ELSE IF ~Truthy(body)
        THEN Handle(q, Abort400("Not a JSON"), objects, nextId)
        ELSE LET state == SetAttrs(Get(objects, "State", state_id), body.data,
                                   StateIgnore)
             IN  Handle(q, JsonResponse(200, "object", <<to_dict(state)>>),
                        Put(objects, "State", state_id, state), nextId)

(***************************************************************************)
(* api/v1/views/cities.py                                                  *)
(***************************************************************************)
get_cities(state_id) ==
    LET q == Request("get_cities", "State", state_id, NoJson)
    IN  IF ~Exists(objects, "State", state_id)
        THEN Handle(q, not_found, objects, nextId)
        ELSE Handle(q, JsonResponse(200, "array",
                        ToDicts(objects, "City",
                                Children(objects, "City", "state_id", state_id))),
                    objects, nextId)

get_city(city_id) ==
    LET q == Request("get_city", "City", city_id, NoJson)
    IN  IF ~Exists(objects, "City", city_id)
        THEN Handle(q, not_found, objects, nextId)
        ELSE Handle(q, JsonResponse(200, "object",
                                    <<to_dict(Get(objects, "City", city_id))>>),
                    objects, nextId)

\* a faulty variant of delete_city: the places of the city go with it
delete_city_cascades(city_id) ==
    LET q == Request("delete_city", "City", city_id, NoJson)
    IN  IF ~Exists(objects, "City", city_id)
        THEN Handle(q, not_found, objects, nextId)
        ELSE Handle(q, JsonResponse(200, "object", <<>>),
                    [k \in (DOMAIN objects) \
                            ({<<"City", city_id>>} \cup
                             {<<"Place", p>> :
                                p \in Children(objects, "Place", "city_id", city_id)})
                        |-> objects[k]],
                    nextId)

delete_city(city_id) ==
    LET q == Request("delete_city", "City", city_id, NoJson)
    IN  IF ~Exists(objects, "City", city_id)
        THEN Handle(q, not_found, objects, nextId)
        ELSE Handle(q, JsonResponse(200, "object", <<>>),
                    Delete(objects, "City", city_id), nextId)

\* a faulty variant of post_city: without instance.state_id = state.id
post_city_keeps_body_state_id(state_id, body) ==
    LET q == Request("post_city", "City", state_id, body)
    IN  IF ~Exists(objects, "State", state_id)
        THEN Handle(q, not_found, objects, nextId)
        ELSE IF ~Truthy(body)
        THEN Handle(q, Abort400("Not a JSON"), objects, nextId)
        ELSE IF "name" \notin DOMAIN body.data
        THEN Handle(q, Abort400("Missing name"), objects, nextId)
        ELSE Create(q, "City", body.data)

post_city(state_id, body) ==
    LET q == Request("post_city", "City", state_id, body)
    IN  IF ~Exists(objects, "State", state_id)
        THEN Handle(q, not_found, objects, nextId)
        ELSE IF ~Truthy(body)
        THEN Handle(q, Abort400("Not a JSON"), objects, nextId)
        ELSE IF "name" \notin DOMAIN body.data
        THEN Handle(q, Abort400("Missing name"), objects, nextId)
        ELSE LET instance == BaseModel("City", body.data, nextId, nextId)
                 \* instance.state_id = state.id
                 city == [instance EXCEPT
                            !.attrs = SetKey(instance.attrs, "state_id",
                                Get(objects, "State", state_id).attrs["id"])]
                 objs == Save(objects, city, nextId)
             IN  Handle(q, JsonResponse(201, "object",
                            <<to_dict(objs[<<"City", city.attrs["id"]>>])>>),
                        objs, nextId + 1)

CityIgnore == {"id", "state_id", "created_at", "updated_at"}

put_city(city_id, body) ==
    LET q == Request("put_city", "City", city_id, body)
    IN  IF ~Exists(objects, "City", city_id)
        THEN Handle(q, not_found, objects, nextId)
        ELSE IF ~Truthy(body)
        THEN Handle(q, Abort400("Not a JSON"), objects, nextId)
        ELSE LET city == SetAttrs(Get(objects, "City", city_id), body.data,
                                  CityIgnore)
             IN  Handle(q, JsonResponse(200, "object", <<to_dict(city)>>),
                        Put(objects, "City", city_id, city), nextId)

(***************************************************************************)
(* api/v1/views/amenities.py                                               *)
(***************************************************************************)
get_amenities ==
    Handle(Request("get_amenities", "Amenity", 0, NoJson),
           JsonResponse(200, "array",
                        ToDicts(objects, "Amenity", All(objects, "Amenity"))),
           objects, nextId)

get_amenity(amenity_id) ==
    LET q == Request("get_amenity", "Amenity", amenity_id, NoJson)
    IN  IF ~Exists(objects, "Amenity", amenity_id)
        THEN Handle(q, not_found, objects, nextId)
        ELSE Handle(q, JsonResponse(200, "object",
                                    <<to_dict(Get(objects, "Amenity", amenity_id))>>),
                    objects, nextId)

post_amenity(body) ==
    LET q == Request("post_amenity", "Amenity", 0, body)
    IN  IF ~Truthy(body)
        THEN Handle(q, Abort400("Not a JSON"), objects, nextId)
        ELSE IF "name" \notin DOMAIN body.data
        THEN Handle(q, Abort400("Missing name"), objects, nextId)
        ELSE Create(q, "Amenity", body.data)

AmenityIgnore == {"id", "created_at", "updated_at"}

\* the body is checked before the amenity is looked up
put_amenity(amenity_id, body) ==
    LET q == Request("put_amenity", "Amenity", amenity_id, body)
    IN  IF ~Truthy(body)
        THEN Handle(q, Abort400("Not a JSON"), objects, nextId)
        ELSE IF ~Exists(objects, "Amenity", amenity_id)
        THEN Handle(q, not_found, objects, nextId)
        ELSE LET amenity == SetAttrs(Get(objects, "Amenity", amenity_id),
                                     body.data, AmenityIgnore)
             IN  Handle(q, JsonResponse(200, "object", <<to_dict(amenity)>>),
                        Put(objects, "Amenity", amenity_id, amenity), nextId)

delete_amenity(amenity_id) ==
    LET q == Request("delete_amenity", "Amenity", amenity_id, NoJson)
    IN  IF ~Exists(objects, "Amenity", amenity_id)
        THEN Handle(q, not_found, objects, nextId)
        ELSE Handle(q, JsonResponse(200, "object", <<>>),
                    Delete(objects, "Amenity", amenity_id), nextId)

(***************************************************************************)
(* api/v1/views/users.py                                                   *)
(***************************************************************************)
get_users ==
    Handle(Request("get_users", "User", 0, NoJson),
           JsonResponse(200, "array", ToDicts(objects, "User", All(objects, "User"))),
           objects, nextId)

get_user(user_id) ==
    LET q == Request("get_user", "User", user_id, NoJson)
    IN  IF ~Exists(objects, "User", user_id)
        THEN Handle(q, not_found, objects, nextId)
        ELSE Handle(q, JsonResponse(200, "object",
                                    <<to_dict(Get(objects, "User", user_id))>>),
                    objects, nextId)

delete_user(user_id) ==
    LET q == Request("delete_user", "User", user_id, NoJson)
    IN  IF ~Exists(objects, "User", user_id)
        THEN Handle(q, not_found, objects, nextId)
        ELSE Handle(q, JsonResponse(200, "object", <<>>),
                    Delete(objects, "User", user_id), nextId)

post_user(body) ==
    LET q == Request("post_user", "User", 0, body)
    IN  IF ~Truthy(body)
        THEN Handle(q, Abort400("Not a JSON"), objects, nextId)
        ELSE IF "email" \notin DOMAIN body.data
        THEN Handle(q, Abort400("Missing email"), objects, nextId)
        ELSE IF "password" \notin DOMAIN body.data
        THEN Handle(q, Abort400("Missing password"), objects, nextId)
        ELSE Create(q, "User", body.data)

UserIgnore == {"id", "email", "created_at", "updated_at"}

put_user(user_id, body) ==
    LET q == Request("put_user", "User", user_id, body)
    IN  IF ~Exists(objects, "User", user_id)
        THEN Handle(q, not_found, objects, nextId)
        ELSE IF ~Truthy(body)
        THEN Handle(q, Abort400("Not a JSON"), objects, nextId)
        ELSE LET user == SetAttrs(Get(objects, "User", user_id), body.data,
                                  UserIgnore)
             IN  Handle(q, JsonResponse(200, "object", <<to_dict(user)>>),
                        Put(objects, "User", user_id, user), nextId)

(***************************************************************************)
(* api/v1/views/places.py                                                  *)
(***************************************************************************)
get_places(city_id) ==
    LET q == Request("get_places", "City", city_id, NoJson)
    IN  IF ~Exists(objects, "City", city_id)
        THEN Handle(q, not_found, objects, nextId)
        ELSE Handle(q, JsonResponse(200, "array",
                        ToDicts(objects, "Place",
                                Children(objects, "Place", "city_id", city_id))),
                    objects, nextId)

get_place(place_id) ==
    LET q == Request("get_place", "Place", place_id, NoJson)
    IN  IF ~Exists(objects, "Place", place_id)
        THEN Handle(q, not_found, objects, nextId)
        ELSE Handle(q, JsonResponse(200, "object",
                                    <<to_dict(Get(objects, "Place", place_id))>>),
                    objects, nextId)

delete_place(place_id) ==
    LET q == Request("delete_place", "Place", place_id, NoJson)
    IN  IF ~Exists(objects, "Place", place_id)
        THEN Handle(q, not_found, objects, nextId)
        ELSE Handle(q, JsonResponse(200, "object", <<>>),
                    Delete(objects, "Place", place_id), nextId)

\* a faulty variant of post_place: the Place is saved before the user is
\* looked up
post_place_saves_first(city_id, body) ==
    LET q == Request("post_place", "Place", city_id, body)
    IN  IF ~Exists(objects, "City", city_id)
        THEN Handle(q, not_found, objects, nextId)
        ELSE IF ~Truthy(body)
        THEN Handle(q, Abort400("Not a JSON"), objects, nextId)
        ELSE IF "user_id" \notin DOMAIN body.data
        THEN Handle(q, Abort400("Missing user_id"), objects, nextId)
        ELSE IF ~Exists(objects, "User", body.data["user_id"])
        THEN Handle(q, not_found,
                    Save(objects,
                         BaseModel("Place", SetKey(body.data, "city_id", city_id),
                                   nextId, nextId),
                         nextId),
                    nextId + 1)
        ELSE IF "name" \notin DOMAIN body.data
        THEN Handle(q, Abort400("Missing name"), objects, nextId)
        ELSE Create(q, "Place", SetKey(body.data, "city_id", city_id))

post_place(city_id, body) ==
    LET q == Request("post_place", "Place", city_id, body)
    IN  IF ~Exists(objects, "City", city_id)
        THEN Handle(q, not_found, objects, nextId)
        ELSE IF ~Truthy(body)
        THEN Handle(q, Abort400("Not a JSON"), objects, nextId)
        ELSE IF "user_id" \notin DOMAIN body.data
        THEN Handle(q, Abort400("Missing user_id"), objects, nextId)
        ELSE IF ~Exists(objects, "User", body.data["user_id"])
        THEN Handle(q, not_found, objects, nextId)
        ELSE IF "name" \notin DOMAIN body.data
        THEN Handle(q, Abort400("Missing name"), objects, nextId)
        ELSE \* data["city_id"] = city_id
             Create(q, "Place", SetKey(body.data, "city_id", city_id))

\* a faulty variant of PlaceIgnore: the foreign keys are not protected
PlaceIgnore_no_foreign_keys == {"id", "created_at", "updated_at"}

PlaceIgnore == {"id", "user_id", "city_id", "created_at", "updated_at"}

put_place(place_id, body) ==
    LET q == Request("put_place", "Place", place_id, body)
    IN  IF ~Exists(objects, "Place", place_id)
        THEN Handle(q, not_found, objects, nextId)
        ELSE IF ~Truthy(body)
        THEN Handle(q, Abort400("Not a JSON"), objects, nextId)
        ELSE LET place == SetAttrs(Get(objects, "Place", place_id), body.data,
                                   PlaceIgnore)
             IN  Handle(q, JsonResponse(200, "object", <<to_dict(place)>>),
                        Put(objects, "Place", place_id, place), nextId)

(***************************************************************************)
(* api/v1/views/places_reviews.py                                          *)
(***************************************************************************)
get_reviews(place_id) ==
    LET q == Request("get_reviews", "Place", place_id, NoJson)
    IN  IF ~Exists(objects, "Place", place_id)
        THEN Handle(q, not_found, objects, nextId)
        ELSE Handle(q, JsonResponse(200, "array",
                        ToDicts(objects, "Review",
                                Children(objects, "Review", "place_id", place_id))),
                    objects, nextId)

get_review(review_id) ==
    LET q == Request("get_review", "Review", review_id, NoJson)
    IN  IF ~Exists(objects, "Review", review_id)
        THEN Handle(q, not_found, objects, nextId)
        ELSE Handle(q, JsonResponse(200, "object",
                                    <<to_dict(Get(objects, "Review", review_id))>>),
                    objects, nextId)

delete_review(review_id) ==
    LET q == Request("delete_review", "Review", review_id, NoJson)
    IN  IF ~Exists(objects, "Review", review_id)
        THEN Handle(q, not_found, objects, nextId)
        ELSE Handle(q, JsonResponse(200, "object", <<>>),
                    Delete(objects, "Review", review_id), nextId)

post_review(place_id, body) ==
    LET q == Request("post_review", "Review", place_id, body)
    IN  IF ~Exists(objects, "Place", place_id)
        THEN Handle(q, not_found, objects, nextId)
        ELSE IF ~Truthy(body)
        THEN Handle(q, Abort400("Not a JSON"), objects, nextId)
        ELSE IF "user_id" \notin DOMAIN body.data
        THEN Handle(q, Abort400("Missing user_id"), objects, nextId)
        ELSE IF ~Exists(objects, "User", body.data["user_id"])
        THEN Handle(q, not_found, objects, nextId)
        ELSE IF "text" \notin DOMAIN body.data
        THEN Handle(q, Abort400("Missing text"), objects, nextId)
        ELSE \* data['place_id'] = place_id
             Create(q, "Review", SetKey(body.data, "place_id", place_id))

ReviewIgnore == {"id", "user_id", "place_id", "created_at", "updated_at"}

put_review(review_id, body) ==
    LET q == Request("put_review", "Review", review_id, body)
    IN  IF ~Exists(objects, "Review", review_id)
        THEN Handle(q, not_found, objects, nextId)
        ELSE IF ~Truthy(body)
        THEN Handle(q, Abort400("Not a JSON"), objects, nextId)
        ELSE LET review == SetAttrs(Get(objects, "Review", review_id), body.data,
                                    ReviewIgnore)
             IN  Handle(q, JsonResponse(200, "object", <<to_dict(review)>>),
                        Put(objects, "Review", review_id, review), nextId)

(***************************************************************************)
(* api/v1/views/places_amenities.py                                        *)
(***************************************************************************)
\* the names the module binds (its imports): Place is not among them, so
\* evaluating storage.get(Place, place_id) raises NameError
PlacesAmenitiesNames ==
    {"Amenity", "storage", "app_views", "environ", "abort", "jsonify",
     "make_response", "request", "swag_from"}

get_place_amenities(place_id) ==
    LET q == LinkRequest("get_place_amenities", place_id, 0)
    IN  IF "Place" \notin PlacesAmenitiesNames
        THEN Handle(q, InternalServerError, objects, nextId)
        ELSE IF ~Exists(objects, "Place", place_id)
        THEN Handle(q, not_found, objects, nextId)
        ELSE Handle(q, JsonResponse(200, "array",
                        ToDicts(objects, "Amenity",
                                Amenities(objects, Get(objects, "Place", place_id)))),
                    objects, nextId)

delete_place_amenity(place_id, amenity_id) ==
    LET q == LinkRequest("delete_place_amenity", place_id, amenity_id)
    IN  IF "Place" \notin PlacesAmenitiesNames
        THEN Handle(q, InternalServerError, objects, nextId)
        ELSE IF ~Exists(objects, "Place", place_id)
        THEN Handle(q, not_found, objects, nextId)
        ELSE IF ~Exists(objects, "Amenity", amenity_id)
        THEN Handle(q, not_found, objects, nextId)
        ELSE LET place == Get(objects, "Place", place_id)
             IN  IF amenity_id \notin Range(place.amenity_ids)
                 THEN Handle(q, not_found, objects, nextId)
                 ELSE \* list.remove: the first occurrence
                      LET i == CHOOSE j \in 1..Len(place.amenity_ids) :
                                  /\ place.amenity_ids[j] = amenity_id
                                  /\ \A k \in 1..(j - 1) :
                                        place.amenity_ids[k] # amenity_id
                          rest == [j \in 1..(Len(place.amenity_ids) - 1) |->
                                     IF j < i THEN place.amenity_ids[j]
                                     ELSE place.amenity_ids[j + 1]]
                      IN  Handle(q, JsonResponse(200, "object", <<>>),
                                 Put(objects, "Place", place_id,
                                     [place EXCEPT !.amenity_ids = rest]),
                                 nextId)

post_place_amenity(place_id, amenity_id) ==
    LET q == LinkRequest("post_place_amenity", place_id, amenity_id)
    IN  IF "Place" \notin PlacesAmenitiesNames
        THEN Handle(q, InternalServerError, objects, nextId)
        ELSE IF ~Exists(objects, "Place", place_id)
        THEN Handle(q, not_found, objects, nextId)
        ELSE IF ~Exists(objects, "Amenity", amenity_id)
        THEN Handle(q, not_found, objects, nextId)
        ELSE LET place == Get(objects, "Place", place_id)
                 amenity == Get(objects, "Amenity", amenity_id)
             IN  IF amenity_id \in Range(place.amenity_ids)
                 THEN Handle(q, JsonResponse(200, "object", <<to_dict(amenity)>>),
                             objects, nextId)
                 ELSE Handle(q, JsonResponse(201, "object", <<to_dict(amenity)>>),
                             Put(objects, "Place", place_id,
                                 [place EXCEPT !.amenity_ids =
                                     Append(place.amenity_ids, amenity_id)]),
                             nextId)

(***************************************************************************)
(* api/v1/views/places.py: places_search                                   *)
(***************************************************************************)
\* data.get(key, None): None and [] are both falsy and neither is iterated,
\* so an absent key reads as the empty list
DictGet(data, key) == IF key \in DOMAIN data THEN data[key] ELSE <<>>

SearchRequest(body) ==
    [handler |-> "places_search", cls |-> "Place", id |-> 0, id2 |-> 0,
     body |-> NoJson,
     is_json |-> body.is_json,
     keys |-> DOMAIN body.data,
     states |-> DictGet(body.data, "states"),
     cities |-> DictGet(body.data, "cities"),
     amenities |-> DictGet(body.data, "amenities")]

\* a faulty variant of IsEmptyFilter: only the empty object counts as empty
IsEmptyFilter_only_empty_object(data) == DOMAIN data = {}

\* not data or not len(data) or (not states and not cities and not amenities)
IsEmptyFilter(data) ==
    \/ DOMAIN data = {}
    \/ /\ DictGet(data, "states") = <<>>
       /\ DictGet(data, "cities") = <<>>
       /\ DictGet(data, "amenities") = <<>>

\* for place in city.places: list_places.append(place)
PlacesOfCity(objs, city_id) ==
    SortedSeq(Children(objs, "Place", "city_id", city_id))

\* for city in state.cities: for place in city.places: append
RECURSIVE PlacesOfCities(_, _)
PlacesOfCities(objs, cs) ==
    IF cs = <<>> THEN <<>>
    ELSE PlacesOfCity(objs, Head(cs)) \o PlacesOfCities(objs, Tail(cs))

\* the state phase: every place of every city of every resolved state is
\* appended unconditionally
RECURSIVE StatePhase(_, _)
StatePhase(objs, states) ==
    IF states = <<>> THEN <<>>
    ELSE (IF Exists(objs, "State", Head(states))
          THEN PlacesOfCities(objs,
                   SortedSeq(Children(objs, "City", "state_id", Head(states))))
          ELSE <<>>)
         \o StatePhase(objs, Tail(states))

\* a faulty variant of AppendNew: without the test `place not in list_places`
AppendNew_always(list_places, ps) == list_places \o ps

\* if place not in list_places: list_places.append(place)
RECURSIVE AppendNew(_, _)
AppendNew(list_places, ps) ==
    IF ps = <<>> THEN list_places
    ELSE AppendNew(IF Head(ps) \in Range(list_places) THEN list_places
                   ELSE Append(list_places, Head(ps)),
                   Tail(ps))

\* the city phase: a place of a resolved city is appended only if absent
RECURSIVE CityPhase(_, _, _)
CityPhase(objs, cities, list_places) ==
    IF cities = <<>> THEN list_places
    ELSE CityPhase(objs, Tail(cities),
                   IF Exists(objs, "City", Head(cities))
                   THEN AppendNew(list_places, PlacesOfCity(objs, Head(cities)))
                   ELSE list_places)

\* a faulty variant of HasAllAmenities: any() in place of all()
HasAllAmenities_any(objs, place_id, amenities) ==
    \E i \in 1..Len(amenities) :
        /\ Exists(objs, "Amenity", amenities[i])
        /\ amenities[i] \in Amenities(objs, Get(objs, "Place", place_id))

\* all([am in place.amenities for am in amenities_obj]), where amenities_obj
\* holds None for an id storage.get does not resolve
HasAllAmenities(objs, place_id, amenities) ==
    \A i \in 1..Len(amenities) :
        /\ Exists(objs, "Amenity", amenities[i])
        /\ amenities[i] \in Amenities(objs, Get(objs, "Place", place_id))

\* the amenity phase: seed with all places if there is no candidate, then
\* keep the candidates that have every requested amenity
AmenityPhase(objs, amenities, list_places) ==
    IF amenities = <<>> THEN list_places
    ELSE LET seeded == IF list_places = <<>>
                       THEN SortedSeq(All(objs, "Place"))
                       ELSE list_places
         IN  SelectSeq(seeded, LAMBDA p : HasAllAmenities(objs, p, amenities))

\* d = p.to_dict(); d.pop('amenities', None)
WithoutAmenities(d) == [d EXCEPT !.lists = Pop(d.lists, "amenities")]

places_search(body) ==
    LET q == SearchRequest(body)
    IN  IF ~body.is_json
        THEN Handle(q, Abort400("Not a JSON"), objects, nextId)
        ELSE IF IsEmptyFilter(body.data)
        THEN Handle(q, JsonResponse(200, "array",
                        ToDicts(objects, "Place", All(objects, "Place"))),
                    objects, nextId)
        ELSE LET list_places ==
                    AmenityPhase(objects, DictGet(body.data, "amenities"),
                        CityPhase(objects, DictGet(body.data, "cities"),
                            StatePhase(objects, DictGet(body.data, "states"))))
             IN  Handle(q, JsonResponse(200, "array",
                            [i \in 1..Len(list_places) |->
                                WithoutAmenities(
                                    to_dict(Get(objects, "Place", list_places[i])))]),
                        objects, nextId)

(***************************************************************************)
(* The service handling CRUD requests, one at a time                       *)
(***************************************************************************)
Init ==
    /\ objects = SeedStore
    /\ nextId = 7
    /\ req = NoRequest
    /\ resp = NoResponse
    /\ nreq = 0
    /\ deleted = {}
    /\ closes = 0
    /\ threads = [t \in Threads |-> Idle]
    /\ last_set = EmptyDict

Next ==
    \/ get_states
    \/ \E id \in ReqIds : get_state(id)
    \/ \E id \in ReqIds : delete_state(id)
    \/ \E body \in NameBodies : post_state(body)
    \/ \E id \in ReqIds, body \in NameBodies : put_state(id, body)
    \/ \E id \in ReqIds : get_cities(id)
    \/ \E id \in ReqIds : get_city(id)
    \/ \E id \in ReqIds : delete_city(id)
    \/ \E id \in ReqIds, body \in NameBodies : post_city(id, body)
    \/ \E id \in ReqIds, body \in NameBodies : put_city(id, body)
    \/ get_amenities
    \/ \E id \in ReqIds : get_amenity(id)
    \/ \E id \in ReqIds : delete_amenity(id)
    \/ \E body \in NameBodies : post_amenity(body)
    \/ \E id \in ReqIds, body \in NameBodies : put_amenity(id, body)
    \/ get_users
    \/ \E id \in ReqIds : get_user(id)
    \/ \E id \in ReqIds : delete_user(id)
    \/ \E body \in UserBodies : post_user(body)
    \/ \E id \in ReqIds, body \in UserBodies : put_user(id, body)
    \/ \E id \in ReqIds : get_places(id)
    \/ \E id \in ReqIds : get_place(id)
    \/ \E id \in ReqIds : delete_place(id)
    \/ \E id \in ReqIds, body \in PlaceBodies : post_place(id, body)
    \/ \E id \in ReqIds, body \in PlaceBodies : put_place(id, body)
    \/ \E id \in ReqIds : get_reviews(id)
    \/ \E id \in ReqIds : get_review(id)
    \/ \E id \in ReqIds : delete_review(id)
    \/ \E id \in ReqIds, body \in ReviewBodies : post_review(id, body)
    \/ \E id \in ReqIds, body \in ReviewBodies : put_review(id, body)
    \/ \E id \in ReqIds : get_place_amenities(id)
    \/ \E id \in ReqIds, id2 \in ReqIds : delete_place_amenity(id, id2)
    \/ \E id \in ReqIds, id2 \in ReqIds : post_place_amenity(id, id2)

Spec == Init /\ [][Next]_vars

(***************************************************************************)
(* The service handling place searches between changes of the catalogue    *)
(***************************************************************************)
\* a larger catalogue: a second State with its City, and Places that differ
\* in city and in amenities
\*   State 1 - City 2 - Place 4 {5}, Place 9 {5, 10}
\*   State 7 - City 8 - Place 11 {}
SearchStore ==
    SeedStore
    @@ (<<"State", 7>> :> Entity("State", Base(7) @@ ("name" :> 11), <<>>))
    @@ (<<"City", 8>> :>
            Entity("City", Base(8) @@ ("name" :> 11) @@ ("state_id" :> 7), <<>>))
    @@ (<<"Place", 9>> :>
            Entity("Place", Base(9) @@ ("name" :> 11) @@ ("city_id" :> 2)
                            @@ ("user_id" :> 3), <<5, 10>>))
    @@ (<<"Amenity", 10>> :> Entity("Amenity", Base(10) @@ ("name" :> 11), <<>>))
    @@ (<<"Place", 11>> :>
            Entity("Place", Base(11) @@ ("name" :> 11) @@ ("city_id" :> 8)
                            @@ ("user_id" :> 3), <<>>))

\* the ids a client lists in a filter: the seeded ids of the class, and 0
FilterIds(cls) == {0} \cup All(SearchStore, cls)

\* the filters of at most MaxFilterLen ids; a key with an empty list may
\* also be absent
Filters ==
    UNION {
        UNION {
            {[k \in K |-> CASE k = "states" -> s
                            [] k = "cities" -> c
                            [] k = "amenities" -> a] :
                K \in {K0 \in SUBSET {"states", "cities", "amenities"} :
                        /\ s # <<>> => "states" \in K0
                        /\ c # <<>> => "cities" \in K0
                        /\ a # <<>> => "amenities" \in K0}} :
            s \in [1..n[1] -> FilterIds("State")],
            c \in [1..n[2] -> FilterIds("City")],
            a \in [1..n[3] -> FilterIds("Amenity")]} :
        n \in {m \in (0..MaxFilterLen) \X (0..MaxFilterLen) \X (0..MaxFilterLen) :
                m[1] + m[2] + m[3] <= MaxFilterLen}}

SearchBodies == {NoJson} \cup {Json(f) : f \in Filters}

InitSearch ==
    /\ objects = SearchStore
    /\ nextId = 12
    /\ req = NoRequest
    /\ resp = NoResponse
    /\ nreq = 0
    /\ deleted = {}
    /\ closes = 0
    /\ threads = [t \in Threads |-> Idle]
    /\ last_set = EmptyDict

\* A search leaves storage as it found it, so a request after it is answered
\* as the same request before it: a behaviour is followed up to its first
\* search, which any sequence of catalogue changes may precede.
BeforeSearch == req.handler # "places_search"

NextSearch ==
    \/ BeforeSearch /\ \E body \in SearchBodies : places_search(body)
    \/ BeforeSearch /\ \E id \in ReqIds, body \in PlaceBodies : post_place(id, body)
    \/ BeforeSearch /\ \E id \in ReqIds : delete_place(id)
    \/ BeforeSearch /\ \E id \in ReqIds : delete_city(id)
    \/ BeforeSearch /\ \E id \in ReqIds : delete_state(id)
    \/ BeforeSearch /\ \E id \in ReqIds : delete_amenity(id)

SpecSearch == InitSearch /\ [][NextSearch]_vars

(***************************************************************************)
(* The service under app.run(threaded=True): each request is handled by    *)
(* its own thread, the threads share the storage, and a thread may be      *)
(* preempted between any two statements that touch the storage             *)
(***************************************************************************)
\* the ids the concurrent clients put in a path: the seeded ids of the
\* class, and 0, an id that was never issued
ThreadIds(cls) == {0} \cup All(SeedStore, cls)

\* the bodies of the concurrent POSTs of a Place: a valid one, one whose
\* user_id is no User's, and one that is not JSON
ThreadPlaceBodies ==
    {Json(("user_id" :> 3) @@ ("name" :> 12)),
     Json(("user_id" :> 5) @@ ("name" :> 12)),
     NoJson}

\* the keys of the body of a concurrent PUT of a State, in the order
\* data.items() yields them
PutKeys ==
    {<<>>, <<"name">>, <<"motto">>, <<"name", "motto">>, <<"id", "name">>}

\* the body of the PUT thread t handles: t writes values of its own
PutBody(t, ks) == Json([k \in Range(ks) |-> 20 + t])

\* thread t takes a request and runs its handler up to the first preemption
\* point (pc), or up to the response if code is not 0
Begin(t, handler, id, body, todo, pc, code) ==
    /\ threads[t].pc = "idle"
    /\ threads' = [threads EXCEPT ![t] =
            [pc |-> IF code = 0 THEN pc ELSE "done", handler |-> handler,
             id |-> id, body |-> body, todo |-> todo, code |-> code]]
    /\ closes' = closes + (IF code = 0 THEN 0 ELSE close_db(FALSE))

\* thread t moves on inside its handler
Goto(t, pc) ==
    /\ threads' = [threads EXCEPT ![t].pc = pc]
    /\ closes' = closes

\* thread t sends its response, and the teardown of its context runs
Respond(t, code) ==
    /\ threads' = [threads EXCEPT ![t].pc = "done", ![t].code = code]
    /\ closes' = closes + close_db(FALSE)

\* post_place: city = storage.get(City, city_id); if not city: abort(404)
post_place_city(t, city_id, body) ==
    /\ Begin(t, "post_place", city_id, body, <<>>, "post_place_user",
             IF Exists(objects, "City", city_id) THEN 0 ELSE 404)
    /\ UNCHANGED <<objects, nextId, req, resp, nreq, deleted, last_set>>

\* post_place: the body checks and user = storage.get(User, data['user_id'])
post_place_user(t) ==
    LET body == threads[t].body
    IN  /\ threads[t].pc = "post_place_user"
        /\ IF ~Truthy(body) THEN Respond(t, 400)
           ELSE IF "user_id" \notin DOMAIN body.data THEN Respond(t, 400)
           ELSE IF ~Exists(objects, "User", body.data["user_id"])
           THEN Respond(t, 404)
           ELSE IF "name" \notin DOMAIN body.data THEN Respond(t, 400)
           ELSE Goto(t, "post_place_save")
        /\ UNCHANGED <<objects, nextId, req, resp, nreq, deleted, last_set>>

\* post_place: data["city_id"] = city_id; instance = Place(**data);
\* instance.save()
post_place_save(t) ==
    LET data == SetKey(threads[t].body.data, "city_id", threads[t].id)
    IN  /\ threads[t].pc = "post_place_save"
        /\ objects' = Save(objects, BaseModel("Place", data, nextId, nextId),
                           nextId)
        /\ nextId' = nextId + 1
        /\ Respond(t, 201)
        /\ UNCHANGED <<req, resp, nreq, deleted, last_set>>

\* delete_city: city = storage.get(City, city_id); if not city: abort(404)
delete_city_get(t, city_id) ==
    /\ Begin(t, "delete_city", city_id, NoJson, <<>>, "delete_city_delete",
             IF Exists(objects, "City", city_id) THEN 0 ELSE 404)
    /\ UNCHANGED <<objects, nextId, req, resp, nreq, deleted, last_set>>

\* delete_city: storage.delete(city); storage.save()
delete_city_delete(t) ==
    /\ threads[t].pc = "delete_city_delete"
    /\ objects' = Delete(objects, "City", threads[t].id)
    /\ Respond(t, 200)
    /\ UNCHANGED <<nextId, req, resp, nreq, deleted, last_set>>

\* delete_user: user = storage.get(User, user_id); if not user: abort(404)
delete_user_get(t, user_id) ==
    /\ Begin(t, "delete_user", user_id, NoJson, <<>>, "delete_user_delete",
             IF Exists(objects, "User", user_id) THEN 0 ELSE 404)
    /\ UNCHANGED <<objects, nextId, req, resp, nreq, deleted, last_set>>

\* delete_user: storage.delete(user); storage.save()
delete_user_delete(t) ==
    /\ threads[t].pc = "delete_user_delete"
    /\ objects' = Delete(objects, "User", threads[t].id)
    /\ Respond(t, 200)
    /\ UNCHANGED <<nextId, req, resp, nreq, deleted, last_set>>

\* put_state: state = storage.get(State, state_id), the body check, and
\* data = request.get_json()
put_state_get(t, state_id, ks) ==
    /\ Begin(t, "put_state", state_id, PutBody(t, ks), ks, "put_state_setattr",
             IF ~Exists(objects, "State", state_id) THEN 404
             ELSE IF ~Truthy(PutBody(t, ks)) THEN 400
             ELSE 0)
    /\ UNCHANGED <<objects, nextId, req, resp, nreq, deleted, last_set>>

\* put_state: one turn of the loop over data.items(); setattr acts on the
\* entity the storage holds
put_state_setattr(t) ==
    LET key == Head(threads[t].todo)
        k == <<"State", threads[t].id>>
    IN  /\ threads[t].pc = "put_state_setattr"
        /\ threads[t].todo # <<>>
        /\ threads' = [threads EXCEPT ![t].todo = Tail(@)]
        /\ IF key \in StateIgnore
           THEN UNCHANGED <<objects, last_set>>
           ELSE /\ objects' = [objects EXCEPT ![k].attrs =
                                SetKey(@, key, threads[t].body.data[key])]
                /\ last_set' = SetKey(last_set, <<threads[t].id, key>>, t)
        /\ UNCHANGED <<nextId, req, resp, nreq, deleted, closes>>

\* a faulty variant of put_state_save: the save writes the values of this
\* request's body over the entity once more
put_state_save_flushes(t) ==
    /\ threads[t].pc = "put_state_setattr"
    /\ threads[t].todo = <<>>
    /\ objects' = Put(objects, "State", threads[t].id,
                      SetAttrs(Get(objects, "State", threads[t].id),
                               threads[t].body.data, StateIgnore))
    /\ Respond(t, 200)
    /\ UNCHANGED <<nextId, req, resp, nreq, deleted, last_set>>

\* put_state: storage.save() after the loop, and the response
put_state_save(t) ==
    /\ threads[t].pc = "put_state_setattr"
    /\ threads[t].todo = <<>>
    /\ Respond(t, 200)
    /\ UNCHANGED <<objects, nextId, req, resp, nreq, deleted, last_set>>

InitThreaded ==
    /\ objects = SeedStore
    /\ nextId = 7
    /\ req = NoRequest
    /\ resp = NoResponse
    /\ nreq = 0
    /\ deleted = {}
    /\ closes = 0
    /\ threads = [t \in Threads |-> Idle]
    /\ last_set = EmptyDict

NextThreaded ==
    \/ \E t \in Threads, id \in ThreadIds("City"), body \in ThreadPlaceBodies :
            post_place_city(t, id, body)
    \/ \E t \in Threads : post_place_user(t)
    \/ \E t \in Threads : post_place_save(t)
    \/ \E t \in Threads, id \in ThreadIds("City") : delete_city_get(t, id)
    \/ \E t \in Threads : delete_city_delete(t)
    \/ \E t \in Threads, id \in ThreadIds("User") : delete_user_get(t, id)
    \/ \E t \in Threads : delete_user_delete(t)
    \/ \E t \in Threads, id \in ThreadIds("State"), ks \in PutKeys :
            put_state_get(t, id, ks)
    \/ \E t \in Threads : put_state_setattr(t)
    \/ \E t \in Threads : put_state_save(t)

SpecThreaded == InitThreaded /\ [][NextThreaded]_vars

(***************************************************************************)
(* Properties                                                              *)
(***************************************************************************)
IsSearch == req.handler = "places_search"

\* the ids of the places of a search response, in order
OutIds == [i \in 1..Len(resp.out) |-> resp.out[i].attrs["id"]]

\* how often a place occurs in the response
Occurrences(p) == Cardinality({i \in 1..Len(resp.out) : OutIds[i] = p})

\* the place has every amenity of the list in its amenity set
LinkedToAll(p, amenities) ==
    \A j \in 1..Len(amenities) :
        amenities[j] \in Amenities(objects, Get(objects, "Place", p))

\* C1: a search whose body is {} or an object whose 'states', 'cities' and
\* 'amenities' are each absent or empty is answered 200 with every Place in
\* storage, each exactly once and as stored
C1_EmptyFilterReturnsAllPlaces ==
    (IsSearch /\ req.is_json /\ req.states = <<>> /\ req.cities = <<>>
        /\ req.amenities = <<>>)
    => /\ resp.code = 200
       /\ Len(resp.out) = Cardinality(All(objects, "Place"))
       /\ \A p \in All(objects, "Place") :
            /\ Occurrences(p) = 1
            /\ \A i \in 1..Len(resp.out) :
                 OutIds[i] = p
                 => resp.out[i].attrs = Get(objects, "Place", p).attrs

\* C1 witness: an empty filter with a key present, sent after a Place was
\* created, is answered with the four places
C1_Witness ==
    /\ IsSearch /\ req.is_json /\ req.keys # {}
    /\ req.states = <<>> /\ req.cities = <<>> /\ req.amenities = <<>>
    /\ nextId > 12
    /\ Len(resp.out) = 4

\* C2: with a non-empty 'amenities' list every returned place has ALL the
\* requested amenities in its amenity set, and without 'states' and 'cities'
\* the result is exactly the places in storage that have them all
C2_AmenitiesAreConjoined ==
    (IsSearch /\ req.is_json /\ req.amenities # <<>>)
    => /\ resp.code = 200
       /\ \A i \in 1..Len(resp.out) :
            /\ Exists(objects, "Place", OutIds[i])
            /\ LinkedToAll(OutIds[i], req.amenities)
       /\ (req.states = <<>> /\ req.cities = <<>>)
          => Range(OutIds) = {p \in All(objects, "Place") :
                                LinkedToAll(p, req.amenities)}

\* C2 witness: two amenities are requested, one place has both and another
\* place has only one of them
C2_Witness ==
    /\ IsSearch /\ req.amenities = <<5, 10>>
    /\ req.states = <<>> /\ req.cities = <<>>
    /\ Range(OutIds) = {9}
    /\ Exists(objects, "Place", 4)
    /\ 5 \in Amenities(objects, Get(objects, "Place", 4))

\* C3: every place of every search response is serialized without an
\* 'amenities' key, the empty filter included
C3_NoAmenitiesKey ==
    (IsSearch /\ resp.code = 200)
    => \A i \in 1..Len(resp.out) : "amenities" \notin Keys(resp.out[i])

\* C4: POST /states with the body {} is answered 400 "Missing name"
C4_EmptyObjectIsMissingName ==
    (req.handler = "post_state" /\ req.is_json /\ req.keys = {})
    => /\ resp.code = 400
       /\ resp.error = "Missing name"

\* C5: every 400 and every 404 carries the JSON envelope {"error": message},
\* and the message of a 404 is "Not found"
C5_ErrorEnvelope ==
    /\ resp.code \in {400, 404} => resp.kind = "envelope"
    /\ resp.code = 404 => resp.error = "Not found"

GetOne ==
    [c \in Classes |->
        CASE c = "State" -> "get_state" [] c = "City" -> "get_city"
          [] c = "Amenity" -> "get_amenity" [] c = "User" -> "get_user"
          [] c = "Place" -> "get_place" [] c = "Review" -> "get_review"]

DeleteOne ==
    [c \in Classes |->
        CASE c = "State" -> "delete_state" [] c = "City" -> "delete_city"
          [] c = "Amenity" -> "delete_amenity" [] c = "User" -> "delete_user"
          [] c = "Place" -> "delete_place" [] c = "Review" -> "delete_review"]

PutHandlers ==
    {"put_state", "put_city", "put_amenity", "put_user", "put_place",
     "put_review"}

\* C6: once DELETE /<resource>/<id> was answered 200, every later GET and
\* every later DELETE of that resource and id is answered 404
C6_DeletedStaysGone ==
    [][\A k \in deleted :
          (req'.handler \in {GetOne[k[1]], DeleteOne[k[1]]} /\ req'.id = k[2]
              /\ nreq' = nreq + 1)
          => resp'.code = 404]_vars

\* C6 witness: a GET of a deleted Review is answered 404
C6_Witness ==
    /\ <<"Review", 6>> \in deleted
    /\ req.handler = "get_review" /\ req.id = 6
    /\ resp.code = 404

\* the foreign key a nested POST takes from its path
ParentKey ==
    [c \in {"City", "Place", "Review"} |->
        CASE c = "City" -> "state_id" [] c = "Place" -> "city_id"
          [] c = "Review" -> "place_id"]

Timestamps == {"created_at", "updated_at"}

\* C7: a GET that follows a POST answered 201, on the id the POST returned,
\* is answered 200 with the mutable fields as the body sent them and, for a
\* City, Place or Review, the parent key equal to the id of the path
C7_GetReturnsWhatWasPosted ==
    [][(resp.code = 201 /\ req'.handler = GetOne[req.cls]
            /\ req'.id = resp.out[1].attrs["id"] /\ nreq' = nreq + 1)
       => /\ resp'.code = 200
          /\ Len(resp'.out) = 1
          /\ resp'.out[1].cls = req.cls
          /\ \A key \in req.keys \ ({"id"} \cup Timestamps) :
                (req.cls \in DOMAIN ParentKey => key # ParentKey[req.cls])
                => /\ key \in DOMAIN resp'.out[1].attrs
                   /\ resp'.out[1].attrs[key] = req.body.data[key]
          /\ req.cls \in DOMAIN ParentKey
             => /\ ParentKey[req.cls] \in DOMAIN resp'.out[1].attrs
                /\ resp'.out[1].attrs[ParentKey[req.cls]] = req.id]_vars

\* C7 witness: a City created under State 1 is read back
C7_Witness ==
    /\ req.handler = "get_city" /\ req.id >= 7
    /\ resp.code = 200
    /\ resp.out[1].attrs["state_id"] = 1
    /\ resp.out[1].attrs["name"] = 12

\* the foreign keys of an entity
ForeignKeys ==
    [c \in Classes |->
        CASE c = "City" -> {"state_id"} [] c = "Place" -> {"user_id", "city_id"}
          [] c = "Review" -> {"user_id", "place_id"} [] OTHER -> {}]

\* a PUT answered 200 keeps the keys of `kept` whatever the body carries,
\* sets every other key of the body, keeps every other attribute and the
\* amenity links, and changes no other entity
PutFrame(kept) ==
    (req'.handler \in PutHandlers /\ resp'.code = 200 /\ nreq' = nreq + 1)
    => LET k == <<req'.cls, req'.id>>
           data == req'.body.data
       IN  /\ DOMAIN objects' = DOMAIN objects
           /\ k \in DOMAIN objects
           /\ \A k2 \in (DOMAIN objects) \ {k} : objects'[k2] = objects[k2]
           /\ objects'[k].cls = objects[k].cls
           /\ objects'[k].amenity_ids = objects[k].amenity_ids
           /\ DOMAIN objects'[k].attrs =
                (DOMAIN objects[k].attrs) \cup ((DOMAIN data) \ kept[req'.cls])
           /\ \A key \in DOMAIN objects'[k].attrs :
                objects'[k].attrs[key] =
                    IF key \in (DOMAIN data) \ kept[req'.cls]
                    THEN data[key] ELSE objects[k].attrs[key]

\* C8 as stated: id, the timestamps and the foreign keys are kept, every
\* other key of the body is set
C8_PutKeepsOnlyIdTimestampsForeignKeys ==
    [][PutFrame([c \in Classes |->
                    {"id"} \cup Timestamps \cup ForeignKeys[c]])]_vars

\* C8 amended: id, the timestamps, the foreign keys and a User's email are
\* kept whatever the body carries; every other key of the body is set and
\* no other entity changes
C8_PutKeepsImmutables ==
    [][PutFrame([c \in Classes |->
                    {"id"} \cup Timestamps \cup ForeignKeys[c]
                    \cup (IF c = "User" THEN {"email"} ELSE {})])]_vars

\* C8 witness: a PUT on a Place whose body carries id, timestamps and a
\* foreign city_id is answered 200
C8_Witness ==
    /\ req.handler = "put_place" /\ resp.code = 200
    /\ {"id", "created_at", "updated_at", "city_id", "name"} \subseteq req.keys
    /\ Get(objects, "Place", req.id).attrs["city_id"] = 2
    /\ Get(objects, "Place", req.id).attrs["name"] = 12

\* the ids of the entities that were deleted
DeletedIds == {k[2] : k \in deleted}

C10_LinkIsAddedOnce ==
    (req.handler = "post_place_amenity" /\ Exists(objects, "Place", req.id)
        /\ Exists(objects, "Amenity", req.id2))
    => /\ resp.code \in {200, 201}
       /\ Cardinality({i \in 1..Len(Get(objects, "Place", req.id).amenity_ids) :
                Get(objects, "Place", req.id).amenity_ids[i] = req.id2}) = 1

\* C11: every amenity id linked to a Place is the id of an Amenity in storage
C11_LinksReferenceAmenities ==
    \A k \in DOMAIN objects :
        \A i \in 1..Len(objects[k].amenity_ids) :
            Exists(objects, "Amenity", objects[k].amenity_ids[i])

C13_OneClosePerRequest ==
    [][nreq' = nreq + 1 => closes' = closes + 1]_vars

\* C13 witness: a request answered 500, after a DELETE answered 200, and
\* storage.close() was called twice
C13_Witness ==
    /\ nreq = 2 /\ closes = 2
    /\ resp.code = 500
    /\ \E k \in deleted : TRUE

\* the place's city is listed under 'cities' and is in storage
InListedCity(p) ==
    LET c == Get(objects, "Place", p).attrs["city_id"]
    IN  Exists(objects, "City", c) /\ c \in Range(req.cities)

\* the occurrences under 'states' of a State in storage that the place's
\* city, itself in storage, belongs to
ListedStateCount(p) ==
    LET c == Get(objects, "Place", p).attrs["city_id"]
    IN  IF ~Exists(objects, "City", c) THEN 0
        ELSE Cardinality({i \in 1..Len(req.states) :
                /\ Exists(objects, "State", req.states[i])
                /\ Get(objects, "City", c).attrs["state_id"] = req.states[i]})

C17_DeleteRemovesOnlyThatEntity ==
    [][/\ (nreq' = nreq + 1 /\ resp'.code = 200
              /\ req'.handler \in {"delete_state", "delete_city", "delete_place",
                                   "delete_user"})
          => /\ <<req'.cls, req'.id>> \in DOMAIN objects
             /\ DOMAIN objects' = (DOMAIN objects) \ {<<req'.cls, req'.id>>}
             /\ \A k \in DOMAIN objects' : objects'[k] = objects[k]
       /\ (nreq' = nreq + 1 /\ req'.handler \in {GetOne[c] : c \in Classes}
              /\ <<req'.cls, req'.id>> \in DOMAIN objects)
          => /\ resp'.code = 200
             /\ Len(resp'.out) = 1
             /\ resp'.out[1].attrs = objects[<<req'.cls, req'.id>>].attrs]_vars

\* C17 witness: after the DELETE of State 1, a GET of its City 2 is
\* answered 200 with state_id 1
C17_Witness ==
    /\ <<"State", 1>> \in deleted
    /\ ~Exists(objects, "State", 1)
    /\ req.handler = "get_city" /\ req.id = 2
    /\ resp.code = 200
    /\ resp.out[1].attrs["state_id"] = 1

\* the place's city is listed under 'cities', or is a city of a state listed
\* under 'states'
BelongsToListed(p) ==
    LET c == Get(objects, "Place", p).attrs["city_id"]
    IN  \/ c \in Range(req.cities)
        \/ /\ Exists(objects, "City", c)
           /\ Get(objects, "City", c).attrs["state_id"] \in Range(req.states)

\* C18: a search with a non-empty 'states' or 'cities' list returns only
\* places of the listed cities and of the cities of the listed states
C18_ResultsWithinListedStatesAndCities ==
    (IsSearch /\ resp.code = 200 /\ (req.states # <<>> \/ req.cities # <<>>))
    => \A i \in 1..Len(resp.out) : BelongsToListed(OutIds[i])

\* C19: a PUT on an id that is not in storage is answered 404 whatever the
\* body, for each of the six resources
C19_PutOnMissingIdIs404 ==
    (req.handler \in PutHandlers /\ ~Exists(objects, req.cls, req.id))
    => resp.code = 404

\* C15: a Place that is added to storage has the city_id of a City and the
\* user_id of a User that are in storage at that moment
C15_PlaceSavedUnderLiveCityAndUser ==
    [][\A k \in (DOMAIN objects') \ (DOMAIN objects) :
          k[1] = "Place"
          => /\ Exists(objects', "City", objects'[k].attrs["city_id"])
             /\ Exists(objects', "User", objects'[k].attrs["user_id"])]_vars

\* the threads handling a PUT of the State
PutsOn(state_id) ==
    {t \in Threads : threads[t].handler = "put_state" /\ threads[t].id = state_id}

\* the keys the PUT of thread t assigns
Written(t) == (DOMAIN threads[t].body.data) \ StateIgnore

====
